---- MODULE Spec2Model ----
(***************************************************************************)
(* A model of packages/backend-rust/scripts/contract_coverage.py: the      *)
(* path composer (_join_paths), the text scanner (_split_top_level_comma,  *)
(* _extract_two_arg_calls), the module resolver (_resolve_module_file),    *)
(* the router tree walker (_extract_rust_endpoints) and the report with    *)
(* its exit code (_percent, main).                                         *)
(*                                                                         *)
(* Strings are sequences of one-character strings, so that slicing,        *)
(* startswith, endswith, rstrip and find are computed as Python computes   *)
(* them.  File paths are sequences of path components.                     *)
(***************************************************************************)
EXTENDS Integers, Sequences, FiniteSets, TLC

VARIABLES
    \* path composer: the two joins the walker makes across two tree levels
    jpc, jp1, jp2, jl, child_prefix, jpath,
    \* text scanner: one run of _extract_two_arg_calls(text, needle)
    spc, text, i, calls, parts,
    \* router tree walker: runs of _extract_rust_endpoints(repo_root)
    disk,       \* the files that exist
    files,      \* per file: what its text declares
    cache,      \* cache: dict[Path, ParsedRouterFile]; None where no entry
    stack,      \* stack: list[Path]
    frames,     \* the active calls of walk, innermost last
    order,      \* the order the loop of line 271 takes the delegation list in
    run,        \* 0: walker off, 1: first run, 2: second run
    result,     \* what the top-level walk of this run returned, once it has
    result1,    \* what the first run returned
    steps,      \* the steps the walker has taken in this run
    extracted,  \* the files _extract_endpoints_from_file was called for in
                \* this run, in the order of the calls
    \* module resolver: one call of _resolve_module_file(routes_root,
    \* current_file, module), on the files of disk: its arguments rfile and
    \* rmodule, its locals parts, base_dir and candidates, the loop position
    \* and the returned value
    rpc, rmodule, rfile, rparts, rbase, rcands, rk, resolved,
    \* main: one run of the coverage report
    mpc, contract, rust, fail_under, covered, missing, coverage, report,
    exit_code

joinVars == <<jpc, jp1, jp2, jl, child_prefix, jpath>>
scanVars == <<spc, text, i, calls, parts>>
walkVars ==
    <<disk, files, cache, stack, frames, order, run, result, result1, steps,
      extracted>>
resVars == <<rpc, rmodule, rfile, rparts, rbase, rcands, rk, resolved>>
mainVars ==
    <<mpc, contract, rust, fail_under, covered, missing, coverage, report,
      exit_code>>
vars == <<joinVars, scanVars, walkVars, resVars, mainVars>>

\* Python's None: no string pair, file path or parse result is the empty tuple
None == <<>>

(***************************************************************************)
(* Bounds                                                                  *)
(***************************************************************************)
\* longest prefix / path string drawn for the path composer
MaxStr == 3
\* longest source text drawn for the text scanner
MaxText == 5
\* most delegations (.nest calls and health_paths.push calls) written in the
\* files of one tree
MaxEdges == 3

\* all sequences over alphabet of length at most n
SeqsUpTo(alphabet, n) == UNION {[1..k -> alphabet] : k \in 0..n}

(***************************************************************************)
(* String helpers (Python str methods)                                     *)
(***************************************************************************)
startswith(s, c) == Len(s) > 0 /\ s[1] = c
endswith(s, c) == Len(s) > 0 /\ s[Len(s)] = c

RECURSIVE rstrip(_, _)
rstrip(s, c) ==
    IF endswith(s, c) THEN rstrip(SubSeq(s, 1, Len(s) - 1), c) ELSE s

(***************************************************************************)
(* _join_paths                                                             *)
(***************************************************************************)
\* lines 135-142: the branch taken when prefix == ""
join_empty_prefix(path) ==
    IF path = <<>> THEN <<"/">>
    ELSE LET p == IF ~startswith(path, "/") THEN <<"/">> \o path ELSE path
         IN  IF p # <<"/">> /\ endswith(p, "/") THEN rstrip(p, "/") ELSE p

\* lines 144-147: leading slash added, ONE trailing slash removed
normalize_prefix(prefix) ==
    LET p == IF ~startswith(prefix, "/") THEN <<"/">> \o prefix ELSE prefix
    IN  IF p # <<"/">> /\ endswith(p, "/") THEN SubSeq(p, 1, Len(p) - 1) ELSE p

\* a composer that glues with an extra slash
concat_prefix_path_slash(prefix, path) ==
    IF path = <<"/">> THEN prefix
    ELSE LET p == IF ~startswith(path, "/") THEN <<"/">> \o path ELSE path
         IN  prefix \o <<"/">> \o p

\* lines 149-155, prefix already normalized
concat_prefix_path(prefix, path) ==
    IF path = <<"/">> THEN prefix
    ELSE LET p == IF ~startswith(path, "/") THEN <<"/">> \o path ELSE path
         IN  IF prefix = <<"/">> THEN p ELSE prefix \o p

join_paths(prefix, path) ==
    IF prefix = <<>> THEN join_empty_prefix(path)
    ELSE concat_prefix_path(normalize_prefix(prefix), path)

\* "leading slash, no trailing slash except root"
Canonical(s) ==
    /\ s # <<>>
    /\ startswith(s, "/")
    /\ (endswith(s, "/") => s = <<"/">>)

(***************************************************************************)
(* _split_top_level_comma                                                  *)
(***************************************************************************)
QUOTE == "\""
BSL == "\\"

Max(a, b) == IF a >= b THEN a ELSE b

\* text[a:b] for 0 <= a, 0 <= b <= Len(s): empty when b <= a
Slice(s, a, b) == SubSeq(s, a + 1, b)

\* the scanner's locals
ScanState(depth, in_str, esc) == [depth |-> depth, in_str |-> in_str, esc |-> esc]

\* the loop body without the clamp of line 78
split_char_unclamped(st, ch) ==
    IF st.in_str
    THEN IF st.esc THEN [st EXCEPT !.esc = FALSE]
         ELSE IF ch = BSL THEN [st EXCEPT !.esc = TRUE]
         ELSE IF ch = QUOTE THEN [st EXCEPT !.in_str = FALSE]
         ELSE st
    ELSE IF ch = QUOTE THEN [st EXCEPT !.in_str = TRUE]
         ELSE IF ch = "(" THEN [st EXCEPT !.depth = @ + 1]
         ELSE IF ch = ")" THEN [st EXCEPT !.depth = @ - 1]
         ELSE st

\* lines 63-79: what one character does to depth, in_str and esc
split_char(st, ch) ==
    IF st.in_str
    THEN IF st.esc THEN [st EXCEPT !.esc = FALSE]
         ELSE IF ch = BSL THEN [st EXCEPT !.esc = TRUE]
         ELSE IF ch = QUOTE THEN [st EXCEPT !.in_str = FALSE]
         ELSE st
    ELSE IF ch = QUOTE THEN [st EXCEPT !.in_str = TRUE]
         ELSE IF ch = "(" THEN [st EXCEPT !.depth = @ + 1]
         ELSE IF ch = ")" THEN [st EXCEPT !.depth = Max(0, @ - 1)]
         ELSE st

\* lines 62-82: the for loop from index k (0-based) on, with its early return
RECURSIVE split_loop(_, _, _)
split_loop(args, k, st) ==
    IF k >= Len(args) THEN None
    ELSE LET ch == args[k + 1]
         IN  IF ~st.in_str /\ ch = "," /\ st.depth = 0
             THEN <<Slice(args, 0, k), Slice(args, k + 1, Len(args))>>
             ELSE split_loop(args, k + 1, split_char(st, ch))

split_top_level_comma(args) == split_loop(args, 0, ScanState(0, FALSE, FALSE))

(***************************************************************************)
(* _extract_two_arg_calls                                                  *)
(***************************************************************************)
\* The call-prefix token.  The source's needles are ".route(" and ".nest(":
\* characters that mean nothing to the scanner followed by the opening
\* parenthesis; "." stands for the ".route" / ".nest" part.
Needle == <<".", "(">>

\* text.find(needle, from): the least index >= from where needle occurs, or -1
find(s, needle, from) ==
    LET hits == {idx \in from..(Len(s) - Len(needle)) :
                    Slice(s, idx, idx + Len(needle)) = needle}
    IN  IF hits = {} THEN -1
        ELSE CHOOSE idx \in hits : \A other \in hits : idx <= other

\* lines 99-112: what one character does to depth, in_str and esc
call_char(st, ch) ==
    IF st.in_str
    THEN IF st.esc THEN [st EXCEPT !.esc = FALSE]
         ELSE IF ch = BSL THEN [st EXCEPT !.esc = TRUE]
         ELSE IF ch = QUOTE THEN [st EXCEPT !.in_str = FALSE]
         ELSE st
    ELSE IF ch = QUOTE THEN [st EXCEPT !.in_str = TRUE]
         ELSE IF ch = "(" THEN [st EXCEPT !.depth = @ + 1]
         ELSE IF ch = ")" THEN [st EXCEPT !.depth = @ - 1]
         ELSE st

\* lines 97-113: the inner while loop; gives j and the locals when it stops
RECURSIVE call_loop(_, _, _)
call_loop(s, j, st) ==
    IF j < Len(s) /\ st.depth > 0
    THEN call_loop(s, j + 1, call_char(st, s[j + 1]))
    ELSE [j |-> j, st |-> st]

\* lines 92-96 and the inner loop, for the occurrence found at idx
scan_occurrence(s, idx) ==
    call_loop(s, idx + Len(Needle), ScanState(1, FALSE, FALSE))

\* lines 115-119: args, the split and the append, for the occurrence at idx
calls_after(s, idx, sofar) ==
    LET end == scan_occurrence(s, idx)
        args == Slice(s, idx + Len(Needle), end.j - 1)
        split == split_top_level_comma(args)
    IN  IF split # None THEN Append(sofar, split) ELSE sofar

(***************************************************************************)
(* Path composer machine: the walker joins the current prefix with an      *)
(* edge's prefix (line 272) and, one level down, the resulting prefix with *)
(* an endpoint's path (line 270).                                          *)
(***************************************************************************)
PathChars == {"/", "a"}
PathStrings == SeqsUpTo(PathChars, MaxStr)

\* the inputs spec.md section 8 lists, as (prefix, path)
Api == <<"/", "a", "p", "i">>
Users == <<"/", "u", "s", "e", "r", "s">>
ListedInputs ==
    { <<<<>>, <<"/">>>>,
      <<<<>>, SubSeq(Users, 2, 6)>>,
      <<Api, <<"/">>>>,
      <<Api \o <<"/">>, Users \o <<"/">>>> }

IdleScan ==
    /\ spc = "off" /\ text = <<>> /\ i = 0 /\ calls = <<>> /\ parts = None

IdleWalk ==
    /\ run = 0 /\ disk = {} /\ files = <<>> /\ cache = <<>> /\ stack = <<>>
    /\ frames = <<>> /\ order = "listed" /\ result = None /\ result1 = None
    /\ steps = 0 /\ extracted = <<>>

IdleRes ==
    /\ rpc = "off" /\ rmodule = <<>> /\ rfile = <<>> /\ rparts = <<>>
    /\ rbase = <<>> /\ rcands = <<>> /\ rk = 0 /\ resolved = None

IdleMain ==
    /\ mpc = "off" /\ contract = {} /\ rust = {} /\ fail_under = None
    /\ covered = {} /\ missing = {} /\ coverage = None /\ report = None
    /\ exit_code = None

InitJoin ==
    /\ IdleScan
    /\ IdleWalk
    /\ IdleRes
    /\ IdleMain
    /\ jpc = "start"
    /\ \E pp \in (PathStrings \X PathStrings) \cup ListedInputs :
          /\ jp1 = pp[1]
          /\ jp2 = pp[2]
    /\ jl \in PathStrings
    /\ child_prefix = <<>>   \* not computed yet
    /\ jpath = <<>>          \* not computed yet

\* line 272: child_prefix = _join_paths(prefix, nest.prefix)
JoinPrefix ==
    /\ jpc = "start"
    /\ child_prefix' = join_paths(jp1, jp2)
    /\ jpc' = "prefix"
    /\ UNCHANGED <<jp1, jp2, jl, jpath>>
    /\ UNCHANGED <<scanVars, walkVars, resVars, mainVars>>

\* line 270, one level down: _join_paths(prefix, ep.path)
JoinLeaf ==
    /\ jpc = "prefix"
    /\ jpath' = join_paths(child_prefix, jl)
    /\ jpc' = "leaf"
    /\ UNCHANGED <<jp1, jp2, jl, child_prefix>>
    /\ UNCHANGED <<scanVars, walkVars, resVars, mainVars>>

NextJoin == JoinPrefix \/ JoinLeaf

SpecJoin == InitJoin /\ [][NextJoin]_vars

(***************************************************************************)
(* Text scanner machine: _split_top_level_comma applied to the drawn text, *)
(* then the while loop of _extract_two_arg_calls(text, needle), one        *)
(* occurrence of the needle per step.                                      *)
(***************************************************************************)
ScanChars == {".", "(", ")", ",", QUOTE, BSL}
\* a call inside the arguments of a call of the same form: the outer one
\* with one argument, and with two
NestedCalls ==
    { <<".", "(", ".", "(", ",", ")", ")">>,
      <<".", "(", ",", ".", "(", ",", ")", ")">> }

Texts == SeqsUpTo(ScanChars, MaxText) \cup NestedCalls

IdleJoin ==
    /\ jpc = "off" /\ jp1 = <<>> /\ jp2 = <<>> /\ jl = <<>>
    /\ child_prefix = <<>> /\ jpath = <<>>

InitScan ==
    /\ IdleJoin
    /\ IdleWalk
    /\ IdleRes
    /\ IdleMain
    /\ spc = "start"
    /\ text \in Texts
    /\ i = 0
    /\ calls = <<>>
    /\ parts = None

\* _split_top_level_comma(text)
SplitArgs ==
    /\ spc = "start"
    /\ parts' = split_top_level_comma(text)
    /\ spc' = "scan"
    /\ UNCHANGED <<text, i, calls>>
    /\ UNCHANGED <<joinVars, walkVars, resVars, mainVars>>

\* lines 89-120: one iteration of the while True loop that finds the needle
ScanCall ==
    /\ spc = "scan"
    /\ LET idx == find(text, Needle, i)
       IN  /\ idx # -1
           /\ calls' = calls_after(text, idx, calls)
           /\ i' = scan_occurrence(text, idx).j
    /\ UNCHANGED <<spc, text, parts>>
    /\ UNCHANGED <<joinVars, walkVars, resVars, mainVars>>

\* lines 90-91 and 121: no further occurrence, return calls
ScanReturn ==
    /\ spc = "scan"
    /\ find(text, Needle, i) = -1
    /\ spc' = "done"
    /\ UNCHANGED <<text, i, calls, parts>>
    /\ UNCHANGED <<joinVars, walkVars, resVars, mainVars>>

NextScan == SplitArgs \/ ScanCall \/ ScanReturn

SpecScan == InitScan /\ [][NextScan]_vars

(***************************************************************************)
(* _resolve_module_file.  A module reference is the sequence of its        *)
(* segments (the text between the "::" separators); a path is the sequence *)
(* of its components.                                                      *)
(***************************************************************************)
\* routes_root (line 245); the directories above src are left out
RoutesRoot == <<"src", "routes">>
\* mod_rs (line 246)
ModRs == RoutesRoot \o <<"mod.rs">>

\* Path.parent
parent(path) ==
    IF path = <<>> THEN <<>> ELSE SubSeq(path, 1, Len(path) - 1)

\* f"{parts[-1]}.rs" (line 219)
rs_file(seg) ==
    CASE seg = "a" -> "a.rs"
      [] seg = "b" -> "b.rs"
      [] seg = "health" -> "health.rs"
      [] seg = "routes" -> "routes.rs"
      [] seg = "x" -> "x.rs"
      [] seg = "crate" -> "crate.rs"
      [] seg = "super" -> "super.rs"
      [] seg = "self" -> "self.rs"

\* lines 206-208: leading "super" segments move the anchor up
RECURSIVE strip_super(_, _)
strip_super(segs, base_dir) ==
    IF segs # <<>> /\ segs[1] = "super"
    THEN strip_super(Tail(segs), parent(base_dir))
    ELSE [parts |-> segs, base_dir |-> base_dir]

\* lines 210-211: leading "self" segments are dropped
RECURSIVE strip_self(_)
strip_self(segs) ==
    IF segs # <<>> /\ segs[1] = "self" THEN strip_self(Tail(segs)) ELSE segs

\* the mod.rs form tried before the .rs form
add_candidates_mod_first(root, segs) ==
    << root \o segs \o <<"mod.rs">>,
       root \o SubSeq(segs, 1, Len(segs) - 1) \o <<rs_file(segs[Len(segs)])>> >>

\* lines 218-220: the two candidates under one root
add_candidates(root, segs) ==
    << root \o SubSeq(segs, 1, Len(segs) - 1) \o <<rs_file(segs[Len(segs)])>>,
       root \o segs \o <<"mod.rs">> >>

\* lines 226-230: the first candidate that exists, or None
RECURSIVE first_existing(_)
first_existing(candidates) ==
    IF candidates = <<>> THEN None
    ELSE IF Head(candidates) \in disk THEN Head(candidates)
    ELSE first_existing(Tail(candidates))

\* lines 200-230, from the crate test on
resolve_parts(routes_root, base_dir, segs) ==
    IF Len(segs) >= 2 /\ segs[1] = "crate" /\ segs[2] = "routes"
    THEN LET rest == strip_self(strip_super(SubSeq(segs, 3, Len(segs)), routes_root).parts)
             anchor == strip_super(SubSeq(segs, 3, Len(segs)), routes_root).base_dir
         IN  IF rest = <<>> THEN None
             ELSE first_existing(
                    add_candidates(anchor, rest)
                    \o (IF anchor # routes_root
                        THEN add_candidates(routes_root, rest) ELSE <<>>))
    ELSE IF segs # <<>> /\ segs[1] = "crate" THEN None
    ELSE LET rest == strip_self(strip_super(segs, base_dir).parts)
             anchor == strip_super(segs, base_dir).base_dir
         IN  IF rest = <<>> THEN None
             ELSE first_existing(
                    add_candidates(anchor, rest)
                    \o (IF anchor # routes_root
                        THEN add_candidates(routes_root, rest) ELSE <<>>))

\* lines 192-198 and the rest
resolve_module_file(routes_root, current_file, module) ==
    IF module = <<>> THEN None
    ELSE resolve_parts(routes_root, parent(current_file), module)

(***************************************************************************)
(* Router tree walker machine.  The text of a file is kept as what the     *)
(* extractors read out of it: the endpoints of its .route calls, the       *)
(* (prefix, module) pairs of its .nest calls in text order, and the string *)
(* literals of its health_paths.push calls.                                *)
(***************************************************************************)
Some(v) == <<v>>

Endpoint(method, path) == [method |-> method, path |-> path]
NestCall(prefix, module) == [prefix |-> prefix, module |-> module]
ParsedRouterFile(endpoints, nests) == [endpoints |-> endpoints, nests |-> nests]

ARs == RoutesRoot \o <<"a.rs">>
BModRs == RoutesRoot \o <<"b", "mod.rs">>
HealthRs == RoutesRoot \o <<"health.rs">>

\* the file trees drawn: with and without a health module
DiskMenu == { {ModRs, ARs, BModRs}, {ModRs, ARs, BModRs, HealthRs} }

\* the .nest calls a file may hold
NestMenu ==
    { NestCall(<<"/", "a">>, <<"a">>),
      NestCall(<<"b", "/">>, <<"b">>),
      NestCall(<<>>, <<"super", "routes">>),
      NestCall(<<"/", "m">>, <<"crate", "x">>) }

\* the health_paths.push literals mod.rs may hold
HealthMenu == { <<>>, << <<"/", "h">> >> }

\* the .route calls of each file
DeclaredEndpoints(f) ==
    CASE f = ModRs -> {Endpoint("GET", <<"/">>)}
      [] f = ARs -> {Endpoint("GET", <<"/", "x">>), Endpoint("POST", <<"x">>)}
      [] f = BModRs -> {Endpoint("GET", <<"x">>)}
      [] f = HealthRs -> {Endpoint("GET", <<"/">>)}

FileText(endpoints, nests, health) ==
    [endpoints |-> endpoints, nests |-> nests, health |-> health]

\* _extract_endpoints_from_file(path): lines 168-189
extract_endpoints_from_file(path) ==
    ParsedRouterFile(files[path].endpoints, files[path].nests)

\* _extract_health_prefixes(mod_text): lines 233-241
extract_health_prefixes(path) == files[path].health

\* a call of walk(path, prefix) at its first line
Call(path, prefix) ==
    [path |-> path, prefix |-> prefix, pc |-> "entry",
     todo |-> {}, k |-> 1, endpoints |-> {}]

InitWalk ==
    /\ IdleJoin
    /\ IdleScan
    /\ IdleRes
    /\ IdleMain
    /\ disk \in DiskMenu
    /\ \E h \in HealthMenu :
       \E n0 \in 0..(MaxEdges - Len(h)) :
       \E n1 \in 0..(MaxEdges - Len(h) - n0) :
       \E n2 \in 0..(MaxEdges - Len(h) - n0 - n1) :
       \E e0 \in [1..n0 -> NestMenu] :
       \E e1 \in [1..n1 -> NestMenu] :
       \E e2 \in [1..n2 -> NestMenu] :
          files = [f \in disk |->
                     CASE f = ModRs -> FileText(DeclaredEndpoints(f), e0, h)
                       [] f = ARs -> FileText(DeclaredEndpoints(f), e1, << <<"/", "h">> >>)
                       [] f = BModRs -> FileText(DeclaredEndpoints(f), e2, <<>>)
                       [] f = HealthRs -> FileText(DeclaredEndpoints(f), <<>>, <<>>)]
    \* lines 247-248 and 280
    /\ cache = <<>>
    /\ stack = <<>>
    /\ frames = <<Call(ModRs, <<>>)>>
    /\ order = "listed"
    /\ run = 1
    /\ result = None
    /\ result1 = None
    /\ steps = 0
    /\ extracted = <<>>

Top == frames[Len(frames)]
SetTop(fr) == [frames EXCEPT ![Len(frames)] = fr]

\* the returned set replaces what the caller had collected
assign_returned(endpoints, value) == value

\* line 276: endpoints |= walk(...)
union_returned(endpoints, value) == endpoints \cup value

\* the innermost call returns value: its caller, at line 276, unions it into
\* its endpoints and goes on to the next nest; the top-level call's value is
\* the walker's result (line 280)
Return(value) ==
    IF Len(frames) = 1
    THEN /\ frames' = <<>>
         /\ result' = Some(value)
    ELSE /\ frames' = [SubSeq(frames, 1, Len(frames) - 1)
                         EXCEPT ![Len(frames) - 1] =
                            [@ EXCEPT !.endpoints = union_returned(@, value),
                                        !.k = @ + 1]]
         /\ UNCHANGED result

\* a guard that looks only at the file visited last
on_stack_top_only(path) == stack # <<>> /\ stack[Len(stack)] = path

\* line 264: path in stack
on_stack(path) == \E n \in 1..Len(stack) : stack[n] = path

\* lines 264-265: the file is on the stack
WalkCycle ==
    /\ frames # <<>>
    /\ Top.pc = "entry"
    /\ on_stack(Top.path)
    /\ Return({})
    /\ UNCHANGED <<extracted, disk, files, cache, stack, order, run, result1>>
    /\ steps' = steps + 1
    /\ UNCHANGED <<joinVars, scanVars, resVars, mainVars>>

\* the file put at the front of the stack
stack_push_front(s, path) == <<path>> \o s

\* line 266: stack.append(path)
stack_push(s, path) == Append(s, path)

\* line 266: stack.append(path)
WalkEnter ==
    /\ frames # <<>>
    /\ Top.pc = "entry"
    /\ ~on_stack(Top.path)
    /\ stack' = stack_push(stack, Top.path)
    /\ frames' = SetTop([Top EXCEPT !.pc = "parse"])
    /\ UNCHANGED <<extracted, disk, files, cache, order, run, result, result1>>
    /\ steps' = steps + 1
    /\ UNCHANGED <<joinVars, scanVars, resVars, mainVars>>

\* the lookup never finds an entry
cache_get_miss(path) == None

\* line 251: cache.get(path)
cache_get(path) == IF path \in DOMAIN cache THEN Some(cache[path]) ELSE None

\* lines 251-253 and 268: parse_file finds the cache entry
ParseCached ==
    /\ frames # <<>>
    /\ Top.pc = "parse"
    /\ cache_get(Top.path) # None
    /\ frames' = SetTop([Top EXCEPT !.pc = "loops",
                                    !.todo = cache[Top.path].endpoints])
    /\ UNCHANGED <<extracted, disk, files, cache, stack, order, run, result, result1>>
    /\ steps' = steps + 1
    /\ UNCHANGED <<joinVars, scanVars, resVars, mainVars>>

\* every file gets the health edges
health_applies_always(path) == TRUE

\* line 256: path == mod_rs
health_applies(path) == path = ModRs

\* the cache replaced by one holding the new entry alone
cache_store_alone(c, path, parsed) == (path :> parsed)

\* line 255: cache[path] = parsed
cache_store(c, path, parsed) ==
    (path :> parsed) @@ [p \in DOMAIN c \ {path} |-> c[p]]

\* lines 254-256: parse_file extracts the file and stores the parse result
ParseFile ==
    /\ frames # <<>>
    /\ Top.pc = "parse"
    /\ cache_get(Top.path) = None
    /\ extracted' = Append(extracted, Top.path)
    /\ cache' = cache_store(cache, Top.path,
                             extract_endpoints_from_file(Top.path))
    /\ frames' = SetTop(IF health_applies(Top.path)
                        THEN [Top EXCEPT !.pc = "health"]
                        ELSE [Top EXCEPT !.pc = "loops",
                                         !.todo = cache'[Top.path].endpoints])
    /\ UNCHANGED <<disk, files, stack, order, run, result, result1>>
    /\ steps' = steps + 1
    /\ UNCHANGED <<joinVars, scanVars, resVars, mainVars>>

\* the synthetic nests of lines 259-260
health_nests(prefixes) ==
    [n \in 1..Len(prefixes) |-> NestCall(prefixes[n], <<"health">>)]

\* lines 256-261: for mod.rs the health nests are appended to the stored
\* parse result
ParseHealth ==
    /\ frames # <<>>
    /\ Top.pc = "health"
    /\ cache' = [cache EXCEPT ![Top.path].nests =
                    @ \o health_nests(extract_health_prefixes(Top.path))]
    /\ frames' = SetTop([Top EXCEPT !.pc = "loops",
                                    !.todo = cache[Top.path].endpoints])
    /\ UNCHANGED <<extracted, disk, files, stack, order, run, result, result1>>
    /\ steps' = steps + 1
    /\ UNCHANGED <<joinVars, scanVars, resVars, mainVars>>

\* lines 269-270: one endpoint of the set, in whatever order the set yields
WalkEndpoint ==
    /\ frames # <<>>
    /\ Top.pc = "loops"
    /\ \E ep \in Top.todo :
          frames' = SetTop([Top EXCEPT
                !.todo = @ \ {ep},
                !.endpoints = @ \cup {Endpoint(ep.method,
                                               join_paths(Top.prefix, ep.path))}])
    /\ UNCHANGED <<extracted, disk, files, cache, stack, order, run, result, result1>>
    /\ steps' = steps + 1
    /\ UNCHANGED <<joinVars, scanVars, resVars, mainVars>>

\* the nest the loop of line 271 takes at its k-th turn
nest_at(nests, k) ==
    IF order = "listed" THEN nests[k] ELSE nests[Len(nests) + 1 - k]

\* the loop of line 271 is at a nest
AtNest ==
    /\ frames # <<>>
    /\ Top.pc = "loops"
    /\ Top.todo = {}
    /\ Top.k <= Len(cache[Top.path].nests)

\* line 273
nested_file ==
    resolve_module_file(RoutesRoot, Top.path,
                        nest_at(cache[Top.path].nests, Top.k).module)

\* an unresolved nest ends the loop
turn_after_unresolved_break(k, n) == n + 1

\* line 275: continue, at turn k of n
turn_after_unresolved(k, n) == k + 1

\* lines 272-275: the nest's module resolves to no file
WalkSkip ==
    /\ AtNest
    /\ nested_file = None
    /\ frames' = SetTop([Top EXCEPT
            !.k = turn_after_unresolved(@, Len(cache[Top.path].nests))])
    /\ UNCHANGED <<extracted, disk, files, cache, stack, order, run, result, result1>>
    /\ steps' = steps + 1
    /\ UNCHANGED <<joinVars, scanVars, resVars, mainVars>>

\* the nest's own prefix handed down, the current prefix forgotten
prefix_for_child_own(prefix, nest_prefix) == join_paths(<<>>, nest_prefix)

\* line 272: the prefix handed down at line 276
prefix_for_child(prefix, nest_prefix) == join_paths(prefix, nest_prefix)

\* lines 272-276: walk(nested_file, child_prefix) is called
WalkCall ==
    /\ AtNest
    /\ nested_file # None
    /\ frames' = Append(frames,
                    Call(nested_file,
                         prefix_for_child(Top.prefix,
                             nest_at(cache[Top.path].nests, Top.k).prefix)))
    /\ UNCHANGED <<extracted, disk, files, cache, stack, order, run, result, result1>>
    /\ steps' = steps + 1
    /\ UNCHANGED <<joinVars, scanVars, resVars, mainVars>>

\* the stack left as it is
stack_keep(s) == s

\* line 277
stack_pop(s) == SubSeq(s, 1, Len(s) - 1)

\* lines 277-278: the nests are done
WalkReturn ==
    /\ frames # <<>>
    /\ Top.pc = "loops"
    /\ Top.todo = {}
    /\ Top.k > Len(cache[Top.path].nests)
    /\ stack' = stack_pop(stack)
    /\ Return(Top.endpoints)
    /\ UNCHANGED <<extracted, disk, files, cache, order, run, result1>>
    /\ steps' = steps + 1
    /\ UNCHANGED <<joinVars, scanVars, resVars, mainVars>>

\* a second invocation on the same files: cache and stack are new (lines
\* 247-248).  The second run may take every delegation list back to front.
SecondRun ==
    /\ run = 1
    /\ frames = <<>>
    /\ result # None
    /\ run' = 2
    /\ result1' = result
    /\ result' = None
    /\ cache' = <<>>
    /\ stack' = <<>>
    /\ frames' = <<Call(ModRs, <<>>)>>
    /\ order' \in {"listed", "reversed"}
    /\ steps' = 0
    /\ extracted' = <<>>
    /\ UNCHANGED <<disk, files>>
    /\ UNCHANGED <<joinVars, scanVars, resVars, mainVars>>

NextWalk ==
    \/ WalkCycle \/ WalkEnter \/ ParseCached \/ ParseFile \/ ParseHealth
    \/ WalkEndpoint \/ WalkSkip \/ WalkCall \/ WalkReturn \/ SecondRun

SpecWalk == InitWalk /\ [][NextWalk]_vars

(***************************************************************************)
(* Module resolver machine: one call of _resolve_module_file, a step per   *)
(* block of its body and per turn of its candidate loop.  The module       *)
(* reference is the sequence of the pieces module.split("::") yields,      *)
(* empty pieces included.                                                  *)
(***************************************************************************)
\* bound on the pieces of a module reference
MaxSegs == 3

Segments == {"crate", "routes", "super", "self", "a", "b", ""}
Modules == SeqsUpTo(Segments, MaxSegs)

\* the files a reference may resolve to, each of which may exist or not
CandidateFiles ==
    { RoutesRoot \o <<"a.rs">>,
      RoutesRoot \o <<"a", "mod.rs">>,
      RoutesRoot \o <<"b", "a.rs">>,
      RoutesRoot \o <<"b", "a", "mod.rs">> }

\* the files a reference is resolved from
CurrentFiles == {ModRs, BModRs}

\* line 194: not module (the reference is the empty string)
module_is_empty(segs) == segs = <<>> \/ segs = <<"">>

\* line 198: [part for part in module.split("::") if part]
split_module(segs) == SelectSeq(segs, LAMBDA part : part # "")

\* line 200: parts[:2] == ["crate", "routes"]
is_crate_routes(segs) ==
    Len(segs) >= 2 /\ segs[1] = "crate" /\ segs[2] = "routes"

\* line 203: parts and parts[0] == "crate"
is_crate(segs) == segs # <<>> /\ segs[1] = "crate"

\* the anchor stays the current file's directory
anchor_for_crate_routes_kept(routes_root, dir) == dir

\* line 202: base_dir = routes_root
anchor_for_crate_routes(routes_root, dir) == routes_root

InitRes ==
    /\ IdleJoin
    /\ IdleScan
    /\ IdleMain
    /\ run = 0 /\ files = <<>> /\ cache = <<>> /\ stack = <<>>
    /\ frames = <<>> /\ order = "listed" /\ result = None /\ result1 = None
    /\ steps = 0 /\ extracted = <<>>
    /\ rfile \in CurrentFiles
    /\ \E others \in SUBSET CandidateFiles : disk = {ModRs, rfile} \cup others
    /\ rmodule \in Modules
    /\ rpc = "start"
    /\ rparts = <<>>
    /\ rbase = <<>>
    /\ rcands = <<>>
    /\ rk = 0
    /\ resolved = None

\* lines 193-204: the empty reference, the split, and the crate test
ResolveCrate ==
    /\ rpc = "start"
    /\ LET segs == split_module(rmodule)
           dir == parent(rfile)
       IN  IF module_is_empty(rmodule) \/ (~is_crate_routes(segs) /\ is_crate(segs))
           THEN /\ rpc' = "done"
                /\ resolved' = None
                /\ UNCHANGED <<rparts, rbase>>
           ELSE /\ rpc' = "strip"
                /\ rparts' = IF is_crate_routes(segs)
                             THEN SubSeq(segs, 3, Len(segs)) ELSE segs
                /\ rbase' = IF is_crate_routes(segs)
                            THEN anchor_for_crate_routes(RoutesRoot, dir) ELSE dir
                /\ UNCHANGED resolved
    /\ UNCHANGED <<rmodule, rfile, rcands, rk>>
    /\ UNCHANGED <<joinVars, scanVars, walkVars, mainVars>>

\* lines 206-214: the super and self pieces, and nothing left
ResolveStrip ==
    /\ rpc = "strip"
    /\ rparts' = strip_self(strip_super(rparts, rbase).parts)
    /\ rbase' = strip_super(rparts, rbase).base_dir
    /\ IF rparts' = <<>>
       THEN rpc' = "done" /\ resolved' = None
       ELSE rpc' = "build" /\ UNCHANGED resolved
    /\ UNCHANGED <<rmodule, rfile, rcands, rk>>
    /\ UNCHANGED <<joinVars, scanVars, walkVars, mainVars>>

\* lines 216-224: the candidates
ResolveBuild ==
    /\ rpc = "build"
    /\ rcands' = add_candidates(rbase, rparts)
                    \o (IF rbase # RoutesRoot
                        THEN add_candidates(RoutesRoot, rparts) ELSE <<>>)
    /\ rk' = 1
    /\ rpc' = "try"
    /\ UNCHANGED <<rmodule, rfile, rparts, rbase, resolved>>
    /\ UNCHANGED <<joinVars, scanVars, walkVars, mainVars>>

\* lines 226-228: one turn of the loop over the candidates
ResolveTry ==
    /\ rpc = "try"
    /\ rk <= Len(rcands)
    /\ IF rcands[rk] \in disk
       THEN rpc' = "done" /\ resolved' = rcands[rk] /\ UNCHANGED rk
       ELSE rk' = rk + 1 /\ UNCHANGED <<rpc, resolved>>
    /\ UNCHANGED <<rmodule, rfile, rparts, rbase, rcands>>
    /\ UNCHANGED <<joinVars, scanVars, walkVars, mainVars>>

\* line 230: no candidate exists
ResolveNone ==
    /\ rpc = "try"
    /\ rk > Len(rcands)
    /\ rpc' = "done"
    /\ resolved' = None
    /\ UNCHANGED <<rmodule, rfile, rparts, rbase, rcands, rk>>
    /\ UNCHANGED <<joinVars, scanVars, walkVars, mainVars>>

NextRes ==
    ResolveCrate \/ ResolveStrip \/ ResolveBuild \/ ResolveTry \/ ResolveNone

SpecRes == InitRes /\ [][NextRes]_vars

(***************************************************************************)
(* Python floats.  _percent computes in IEEE 754 binary64: a positive      *)
(* float is its 53 significant bits and the exponent of the last of them;  *)
(* every operation rounds its exact result to 53 bits, ties to the even    *)
(* neighbour.  The 53 bits are kept as three limbs of 17, 18 and 18 bits,  *)
(* so that every intermediate value fits the model checker's integers.     *)
(***************************************************************************)
RECURSIVE Pow2(_)
Pow2(k) == IF k = 0 THEN 1 ELSE 2 * Pow2(k - 1)

\* the base of a limb
Limb == Pow2(18)

\* the float (hi * 2^36 + mid * 2^18 + lo) * 2^e, with 2^16 <= hi < 2^17
Float(hi, mid, lo, e) == [hi |-> hi, mid |-> mid, lo |-> lo, e |-> e]
Zero == Float(0, 0, 0, 0)

\* the last step of rounding: one is added to the 53 kept bits when up, and
\* when that gives 2^53 the float is 2^52 with the next exponent
RoundUp(hi, mid, lo, e, up) ==
    LET lo1 == lo + (IF up THEN 1 ELSE 0)
        mid1 == mid + (lo1 \div Limb)
        hi1 == hi + (mid1 \div Limb)
    IN  IF hi1 = Pow2(17) THEN Float(Pow2(16), 0, 0, e + 1)
        ELSE Float(hi1, mid1 % Limb, lo1 % Limb, e)

\* the number of binary digits of a natural number
RECURSIVE BitLength(_)
BitLength(n) == IF n = 0 THEN 0 ELSE 1 + BitLength(n \div 2)

\* float(n) for a natural number below 2^17
FromInt(n) ==
    IF n = 0 THEN Zero
    ELSE Float(n * Pow2(17 - BitLength(n)), 0, 0, BitLength(n) - 53)

\* the digits of r / d after the point up to the first 1, for 0 < r < d
RECURSIVE LeadingZeros(_, _)
LeadingZeros(r, d) == IF 2 * r >= d THEN 0 ELSE 1 + LeadingZeros(2 * r, d)

\* numerator / denominator (line 295) for 0 <= numerator <= denominator and
\* 0 < denominator < 2^13 (main divides the size of a subset of the
\* contract by the size of the contract): 54 digits of the quotient by long
\* division, 18 at a time, rounded to 53
Divide(numerator, denominator) ==
    IF numerator = 0 THEN Zero
    ELSE IF numerator = denominator THEN FromInt(1)
    ELSE LET zeros == LeadingZeros(numerator, denominator)
             r0 == numerator * Pow2(zeros)
             q1 == (r0 * Limb) \div denominator
             r1 == (r0 * Limb) % denominator
             q2 == (r1 * Limb) \div denominator
             r2 == (r1 * Limb) % denominator
             q3 == (r2 * Limb) \div denominator
             r3 == (r2 * Limb) % denominator
             guard == q3 % 2
             last == (q3 \div 2) % 2
         IN  RoundUp(q1 \div 2,
                     (q1 % 2) * Pow2(17) + (q2 \div 2),
                     (q2 % 2) * Pow2(17) + (q3 \div 2),
                     -(zeros + 53),
                     guard = 1 /\ (r3 # 0 \/ last = 1))

\* x * 100.0 (line 295): the exact product has 59 or 60 digits, of which the
\* last 6 or 7 are rounded away
TimesHundred(x) ==
    IF x = Zero THEN Zero
    ELSE LET p0 == x.lo * 100
             p1 == x.mid * 100 + (p0 \div Limb)
             p2 == x.hi * 100 + (p1 \div Limb)
             mid == p1 % Limb
             lo == p0 % Limb
             drop == IF p2 < Pow2(23) THEN 6 ELSE 7
             guard == (lo \div Pow2(drop - 1)) % 2
             sticky == lo % Pow2(drop - 1) # 0
             lo1 == (mid % Pow2(drop)) * Pow2(18 - drop) + (lo \div Pow2(drop))
             mid1 == (p2 % Pow2(drop)) * Pow2(18 - drop) + (mid \div Pow2(drop))
         IN  RoundUp(p2 \div Pow2(drop), mid1, lo1, x.e + drop,
                     guard = 1 /\ (sticky \/ lo1 % 2 = 1))

\* the whole part of a float below 2^17
Floor(x) ==
    IF x = Zero \/ 53 + x.e <= 0 THEN 0
    ELSE x.hi \div Pow2(17 - (53 + x.e))

\* x < t for a float x and a whole number t (line 340)
LessThanInt(x, t) == Floor(x) < t

\* _percent(numerator, denominator): lines 292-295
percent(numerator, denominator) ==
    IF denominator = 0 THEN FromInt(100)
    ELSE TimesHundred(Divide(numerator, denominator))

(***************************************************************************)
(* main: one run of the report.  Endpoints are numbered; the contract is   *)
(* what _load_contract_endpoints returned and rust what                    *)
(* _extract_rust_endpoints returned.  The threshold of --fail-under is a   *)
(* whole number of percent, or None when the option is not given.          *)
(***************************************************************************)
\* bound on the endpoints of the contract
MaxContract == 50

Thresholds == 0..100

InitMain ==
    /\ IdleJoin
    /\ IdleScan
    /\ IdleWalk
    /\ IdleRes
    /\ mpc = "start"
    \* lines 319-323
    /\ fail_under \in {None} \cup {Some(t) : t \in Thresholds}
    /\ \E nc \in 0..MaxContract : \E k \in 0..nc : \E extra \in 0..1 :
          /\ contract = 1..nc
          /\ rust = (1..k) \cup ((nc + 1)..(nc + extra))
    /\ covered = {}
    /\ missing = {}
    /\ coverage = None
    /\ report = None
    /\ exit_code = None

\* lines 325-328
MainCount ==
    /\ mpc = "start"
    /\ covered' = contract \cap rust
    /\ missing' = contract \ rust
    /\ coverage' = Some(percent(Cardinality(covered'), Cardinality(contract)))
    /\ mpc' = "print"
    /\ UNCHANGED <<contract, rust, fail_under, report, exit_code>>
    /\ UNCHANGED <<joinVars, scanVars, walkVars, resVars>>

\* lines 329-332: the counts printed (the percent of line 333 and the
\* listing of lines 335-338 are not kept)
MainPrint ==
    /\ mpc = "print"
    /\ report' = Some([contract_endpoints |-> Cardinality(contract),
                       rust_endpoints |-> Cardinality(rust),
                       covered |-> Cardinality(covered),
                       missing |-> Cardinality(missing)])
    /\ mpc' = "check"
    /\ UNCHANGED <<contract, rust, fail_under, covered, missing, coverage,
                   exit_code>>
    /\ UNCHANGED <<joinVars, scanVars, walkVars, resVars>>

\* line 340
below_threshold ==
    fail_under # None /\ LessThanInt(coverage[1], fail_under[1])

\* lines 340-345
MainFail ==
    /\ mpc = "check"
    /\ below_threshold
    /\ exit_code' = Some(1)
    /\ mpc' = "done"
    /\ UNCHANGED <<contract, rust, fail_under, covered, missing, coverage,
                   report>>
    /\ UNCHANGED <<joinVars, scanVars, walkVars, resVars>>

\* line 347
MainOk ==
    /\ mpc = "check"
    /\ ~below_threshold
    /\ exit_code' = Some(0)
    /\ mpc' = "done"
    /\ UNCHANGED <<contract, rust, fail_under, covered, missing, coverage,
                   report>>
    /\ UNCHANGED <<joinVars, scanVars, walkVars, resVars>>

NextMain == MainCount \/ MainPrint \/ MainFail \/ MainOk

SpecMain == InitMain /\ [][NextMain]_vars

(***************************************************************************)
(* Claims about the path composer, checked under SpecJoin                  *)
(***************************************************************************)
\* C4: path composition is associative: join(join(P1, P2), L) equals
\* join(P1, join(P2, L)) for all prefixes P1, P2 and leaf paths L.
C4_JoinAssociative ==
    jpc = "leaf" => jpath = join_paths(jp1, join_paths(jp2, jl))

SlashBoundary(p1, p2) ==
    /\ ~endswith(p1, "/")
    /\ startswith(p2, "/")
    /\ ~(Len(p2) >= 2 /\ p2[Len(p2)] = "/" /\ p2[Len(p2) - 1] = "/")

C6_JoinCanonical ==
    /\ jpc # "start" => Canonical(child_prefix)
    /\ jpc = "leaf" => Canonical(jpath)

\* C7: join gives the listed values: join("", "/") = "/",
\* join("", "users") = "/users", join("/api", "/") = "/api" and
\* join("/api/", "/users/") = "/api/users".
C7_ListedValues ==
    jpc # "start" =>
        /\ (jp1 = <<>> /\ jp2 = <<"/">>) => child_prefix = <<"/">>
        /\ (jp1 = <<>> /\ jp2 = SubSeq(Users, 2, 6)) => child_prefix = Users
        /\ (jp1 = Api /\ jp2 = <<"/">>) => child_prefix = Api
        /\ (jp1 = Api \o <<"/">> /\ jp2 = Users \o <<"/">>)
              => child_prefix = Api \o Users

(***************************************************************************)
(* Claims about the text scanner, checked under SpecScan                   *)
(***************************************************************************)
\* the length of the run of backslashes that ends at position k (1-based)
RECURSIVE BackslashRun(_, _)
BackslashRun(s, k) ==
    IF k >= 1 /\ s[k] = BSL THEN 1 + BackslashRun(s, k - 1) ELSE 0

\* after the first k characters the text is inside a double-quoted string: a
\* quote outside a string opens one, and a quote inside a string closes it
\* unless an odd number of backslashes stands right before it
RECURSIVE InsideString(_, _)
InsideString(s, k) ==
    IF k = 0 THEN FALSE
    ELSE IF ~InsideString(s, k - 1) THEN s[k] = QUOTE
         ELSE ~(s[k] = QUOTE /\ BackslashRun(s, k - 1) % 2 = 0)

\* position k holds character ch outside every string
Outside(s, k, ch) == s[k] = ch /\ ~InsideString(s, k - 1)

\* opening minus closing parentheses outside strings in positions p..q
Balance(s, p, q) ==
    Cardinality({r \in p..q : Outside(s, r, "(")})
        - Cardinality({r \in p..q : Outside(s, r, ")")})

\* the parentheses opened before position k and not closed before it
EnclosingParens(s, k) ==
    {p \in 1..(k - 1) :
        /\ Outside(s, p, "(")
        /\ \A q \in (p + 1)..(k - 1) : Balance(s, p, q) # 0}

\* the commas at parenthesis depth zero outside every string
TopLevelCommas(s) ==
    {k \in 1..Len(s) : Outside(s, k, ",") /\ EnclosingParens(s, k) = {}}

\* C9: splitTopLevelComma returns the text before and the text after the
\* first comma at parenthesis depth zero outside every double-quoted string,
\* and none exactly when there is no such comma.
C9_SplitAtFirstTopLevelComma ==
    spc # "start" =>
        IF TopLevelCommas(text) = {} THEN parts = None
        ELSE LET m == CHOOSE k \in TopLevelCommas(text) :
                          \A other \in TopLevelCommas(text) : k <= other
             IN  parts = <<SubSeq(text, 1, m - 1), SubSeq(text, m + 1, Len(text))>>

\* C9 witness: a quoted string holding a comma and a parenthesis, then the
\* comma that splits
C9_Witness ==
    /\ spc # "start"
    /\ text = <<QUOTE, ",", "(", QUOTE, ",">>
    /\ parts = <<<<QUOTE, ",", "(", QUOTE>>, <<>>>>

\* C10: an occurrence of the call prefix whose scan reaches the end of the
\* text with its parentheses still open adds no entry to the list of calls.
C10_UnbalancedOccurrenceSkipped ==
    [][ (/\ spc = "scan"
         /\ find(text, Needle, i) # -1
         /\ scan_occurrence(text, find(text, Needle, i)).st.depth > 0)
            => calls' = calls ]_vars

(***************************************************************************)
(* Claims about the router tree walker, checked under SpecWalk.  The       *)
(* delegation graph is read off the files, not off the walker's state.     *)
(***************************************************************************)
\* the delegation edges of a file: its .nest calls and, for mod.rs, one
\* edge to the health module per pushed literal
DelegationEdges(f) ==
    files[f].nests
        \o (IF f = ModRs THEN health_nests(files[f].health) ELSE <<>>)

\* the file an edge of f leads to, or None
EdgeTarget(f, edge) == resolve_module_file(RoutesRoot, f, edge.module)

\* a route so far: the file reached, the joined prefix, the files on the route
Route(file, prefix, on_route) ==
    [file |-> file, prefix |-> prefix, on_route |-> on_route]

\* the routes one resolved edge longer; with simple, only to files not yet
\* on the route
Extend(routes, simple) ==
    UNION { { Route(EdgeTarget(r.file, DelegationEdges(r.file)[n]),
                    join_paths(r.prefix, DelegationEdges(r.file)[n].prefix),
                    IF simple
                    THEN r.on_route \cup {EdgeTarget(r.file, DelegationEdges(r.file)[n])}
                    ELSE {})
              : n \in { m \in 1..Len(DelegationEdges(r.file)) :
                          LET g == EdgeTarget(r.file, DelegationEdges(r.file)[m])
                          IN  g # None /\ (simple => g \notin r.on_route) } }
            : r \in routes }

\* the routes of at most n edges that start with the given ones
RECURSIVE RoutesFrom(_, _, _)
RoutesFrom(routes, n, simple) ==
    IF n = 0 \/ routes = {} THEN routes
    ELSE routes \cup RoutesFrom(Extend(routes, simple), n - 1, simple)

\* the endpoints declared at the end of the routes, under the routes' prefixes
EndpointsOf(routes) ==
    UNION { { Endpoint(ep.method, join_paths(r.prefix, ep.path))
                : ep \in files[r.file].endpoints } : r \in routes }

\* what a walk of file under prefix yields when the files of active are
\* being visited: the endpoints at the end of the routes that start there and
\* enter no file twice nor any file of active
Yield(file, prefix, active) ==
    IF file \in active THEN {}
    ELSE EndpointsOf(RoutesFrom({Route(file, prefix, active \cup {file})},
                                Cardinality(disk), TRUE))

\* every endpoint at the end of a route of resolved edges from the root
Provenance ==
    EndpointsOf(RoutesFrom({Route(ModRs, <<>>, {})},
                           Cardinality(disk) + 1, FALSE))

Done == frames = <<>> /\ result # None

EdgeCount ==
    LET RECURSIVE Sum(_)
        Sum(fs) == IF fs = {} THEN 0
                   ELSE LET f == CHOOSE g \in fs : TRUE
                        IN  Len(DelegationEdges(f)) + Sum(fs \ {f})
    IN  Sum(disk)

RECURSIVE Power(_, _)
Power(b, n) == IF n = 0 THEN 1 ELSE b * Power(b, n - 1)

RECURSIVE CallBound(_)
CallBound(d) == IF d = 0 THEN 1 ELSE Power(EdgeCount, d) + CallBound(d - 1)

\* a bound on the steps of one run: a call of walk per route of at most as
\* many edges as there are files, and per call its entry, the stack push, the
\* parse, the health nests, its return, a step per declared endpoint and a
\* step per edge
StepBound ==
    CallBound(Cardinality(disk))
        * (5 + Cardinality(UNION {files[f].endpoints : f \in disk}) + EdgeCount)

C2_EndpointsHaveProvenance ==
    /\ [](/\ \A n \in 1..Len(frames) : frames[n].endpoints \subseteq Provenance
          /\ (result # None => result[1] \subseteq Provenance))
    /\ [][ (/\ Len(frames) > 1
            /\ Top.pc = "entry"
            /\ Top.path \in {frames[n].path : n \in 1..(Len(frames) - 1)})
              => /\ Len(frames') = Len(frames) - 1
                 /\ frames'[Len(frames')].endpoints
                        = frames[Len(frames) - 1].endpoints ]_vars

\* C2 witness: the run is over, an endpoint declared two edges from the root
\* is in the result under the joined prefixes, and the file declaring it
\* delegates to itself
C2_Witness ==
    /\ run = 1 /\ Done
    /\ Endpoint("GET", <<"/", "a", "/", "b", "/", "x">>) \in result[1]
    /\ \E n \in 1..Len(files[BModRs].nests) :
          files[BModRs].nests[n].module = <<"b">>

\* the turns of the nest loop a call has been through
TurnsDone(fr) ==
    IF fr.pc = "loops" /\ fr.todo = {} THEN 1..(fr.k - 1) ELSE {}

\* the files being visited when the n-th active call runs its loops
ActiveAt(n) == {frames[m].path : m \in 1..n}

\* a file with an edge whose module resolves to no file
HasUnresolvedEdge(f) ==
    \E n \in 1..Len(DelegationEdges(f)) :
        EdgeTarget(f, DelegationEdges(f)[n]) = None

\* C3: the turn of an edge whose module resolves to no file changes nothing
\* but the loop position, which moves to the next edge; in a file with such
\* an edge, every edge walked so far has contributed what its walk yields,
\* the declared endpoints are in once their loop is over, and when the root
\* has such an edge the result holds the declared endpoints and the yield of
\* every other edge.
C3_UnresolvedEdgeSkipped ==
    /\ [][ (AtNest /\ nested_file = None)
              => frames' = SetTop([Top EXCEPT !.k = @ + 1]) ]_vars
    /\ [](\A n \in 1..Len(frames) :
            (/\ frames[n].pc = "loops"
             /\ frames[n].todo = {}
             /\ HasUnresolvedEdge(frames[n].path))
            => /\ EndpointsOf({Route(frames[n].path, frames[n].prefix, {})})
                    \subseteq frames[n].endpoints
               /\ \A t \in TurnsDone(frames[n]) :
                    LET edge == nest_at(DelegationEdges(frames[n].path), t)
                        g == EdgeTarget(frames[n].path, edge)
                    IN  g # None =>
                          Yield(g, join_paths(frames[n].prefix, edge.prefix),
                                ActiveAt(n)) \subseteq frames[n].endpoints)
    /\ []((Done /\ HasUnresolvedEdge(ModRs))
            => Yield(ModRs, <<>>, {}) \subseteq result[1])

\* C3 witness: the root's second of three edges resolved to no file, and the
\* result holds the root's endpoint and those of the edges before and after
C3_Witness ==
    /\ run = 1 /\ Done
    /\ Len(files[ModRs].nests) = 3
    /\ EdgeTarget(ModRs, files[ModRs].nests[1]) = ARs
    /\ EdgeTarget(ModRs, files[ModRs].nests[2]) = None
    /\ EdgeTarget(ModRs, files[ModRs].nests[3]) = BModRs
    /\ { Endpoint("GET", <<"/">>),
         Endpoint("GET", <<"/", "a", "/", "x">>),
         Endpoint("GET", <<"/", "b", "/", "x">>) } \subseteq result[1]

\* C8: a second run on the same files returns the set the first run
\* returned, whatever order the endpoints are taken in and whether the
\* delegation lists are taken front to back or back to front.
C8_SecondRunSameResult ==
    (run = 2 /\ Done) => result = result1

\* C8 witness: the second run took the delegation lists back to front, the
\* root's two edges lead to different files, and both runs returned the
\* endpoints of both
C8_Witness ==
    /\ run = 2 /\ Done
    /\ order = "reversed"
    /\ Len(files[ModRs].nests) = 2
    /\ EdgeTarget(ModRs, files[ModRs].nests[1]) = ARs
    /\ EdgeTarget(ModRs, files[ModRs].nests[2]) = BModRs
    /\ Endpoint("POST", <<"/", "a", "/", "x">>) \in result[1]
    /\ Endpoint("GET", <<"/", "b", "/", "x">>) \in result1[1]

(***************************************************************************)
(* Claims about the module resolver, checked under SpecRes                 *)
(***************************************************************************)
\* <root>/<all-but-last>/<last>.rs for the pieces left after the crate,
\* super and self pieces
RsForm(root) ==
    root \o SubSeq(rparts, 1, Len(rparts) - 1) \o <<rs_file(rparts[Len(rparts)])>>

\* <root>/<all segments>/mod.rs
ModForm(root) == root \o rparts \o <<"mod.rs">>

\* the first existing of the anchor's two forms and, when the anchor is not
\* the routes root, the routes root's two forms; None when none exists
FirstInBuildOrder ==
    IF RsForm(rbase) \in disk THEN RsForm(rbase)
    ELSE IF ModForm(rbase) \in disk THEN ModForm(rbase)
    ELSE IF rbase # RoutesRoot /\ RsForm(RoutesRoot) \in disk THEN RsForm(RoutesRoot)
    ELSE IF rbase # RoutesRoot /\ ModForm(RoutesRoot) \in disk THEN ModForm(RoutesRoot)
    ELSE None

\* a call that got as far as building its candidates has returned
ResolvedFromCandidates == rpc = "done" /\ rcands # <<>>

\* C11: the resolver returns the first existing file in build order: the
\* anchor's .rs form, the anchor's mod.rs form, then, only when the anchor is
\* not the routes root, the same two forms under the routes root; so a match
\* under the anchor wins over one under the routes root, and the result is
\* unresolved exactly when none of these files exists.
C11_FirstExistingInBuildOrder ==
    ResolvedFromCandidates =>
        /\ resolved = FirstInBuildOrder
        /\ ((RsForm(rbase) \in disk \/ ModForm(rbase) \in disk)
              => resolved \in {RsForm(rbase), ModForm(rbase)})
        /\ (resolved = None <=>
              /\ {RsForm(rbase), ModForm(rbase)} \cap disk = {}
              /\ (rbase # RoutesRoot
                    => {RsForm(RoutesRoot), ModForm(RoutesRoot)} \cap disk = {}))

\* C11 witness: from routes/b/mod.rs the reference "a" resolved to
\* routes/b/a/mod.rs, the anchor's second form, though routes/a.rs exists
C11_Witness ==
    /\ ResolvedFromCandidates
    /\ rfile = BModRs
    /\ rmodule = <<"a">>
    /\ RoutesRoot \o <<"a.rs">> \in disk
    /\ resolved = RoutesRoot \o <<"b", "a", "mod.rs">>

\* C11 second witness: no anchor form exists and the routes root's mod.rs
\* form, the last candidate, is returned
C11_WitnessFallback ==
    /\ ResolvedFromCandidates
    /\ rfile = BModRs
    /\ rk = 4
    /\ resolved = RoutesRoot \o <<"a", "mod.rs">>

\* the segments of the reference: the non-empty pieces between the "::"
Pieces == SelectSeq(rmodule, LAMBDA part : part # "")

\* the first segment is the crate root and the second is not the routes
\* subtree
CrateNotRoutes ==
    /\ Pieces # <<>>
    /\ Pieces[1] = "crate"
    /\ (Len(Pieces) >= 2 => Pieces[2] # "routes")

\* the reference starts with crate root, then routes subtree
CrateRoutes == Len(Pieces) >= 2 /\ Pieces[1] = "crate" /\ Pieces[2] = "routes"

AfterCrateRoutes == SubSeq(Pieces, 3, Len(Pieces))

RECURSIVE DropLeading(_, _)
DropLeading(segs, word) ==
    IF segs # <<>> /\ Head(segs) = word THEN DropLeading(Tail(segs), word)
    ELSE segs

\* the segments left after dropping crate/routes, parent and self segments
Remaining ==
    DropLeading(DropLeading(IF CrateRoutes THEN AfterCrateRoutes ELSE Pieces,
                            "super"),
                "self")

\* C12: a reference whose first segment is the crate root and whose second
\* is not the routes subtree is unresolved without a look at the files; for
\* one starting with crate root, routes subtree, resolution goes on with
\* those two segments dropped and the routes root as anchor, so that the
\* result is what the rest resolves to from a file of the routes root; a
\* reference with no segments left after the crate/routes, parent and self
\* segments is unresolved.
C12_CrateAndEmptyReferences ==
    /\ (rpc = "done" /\ CrateNotRoutes) => (resolved = None /\ rcands = <<>>)
    /\ (rpc = "strip" /\ CrateRoutes)
          => (rparts = AfterCrateRoutes /\ rbase = RoutesRoot)
    /\ (rpc = "done" /\ CrateRoutes
            /\ (AfterCrateRoutes # <<>> => Head(AfterCrateRoutes) # "crate"))
          => resolved = resolve_module_file(RoutesRoot, ModRs, AfterCrateRoutes)
    /\ (rpc = "done" /\ ~CrateNotRoutes /\ Remaining = <<>>)
          => (resolved = None /\ rcands = <<>>)

\* C12 witness: from routes/b/mod.rs, where routes/b/a.rs exists,
\* crate::routes::a resolved to routes/a.rs
C12_Witness ==
    /\ rpc = "done"
    /\ rfile = BModRs
    /\ rmodule = <<"crate", "routes", "a">>
    /\ RoutesRoot \o <<"b", "a.rs">> \in disk
    /\ resolved = RoutesRoot \o <<"a.rs">>

(***************************************************************************)
(* Claims about main, checked under SpecMain                               *)
(***************************************************************************)
\* covered / contract x 100 is strictly below t percent, 100 standing for
\* the percentage of an empty contract
PercentBelow(t) ==
    IF contract = {} THEN 100 < t
    ELSE Cardinality(contract \cap rust) * 100 < t * Cardinality(contract)

\* C13: the exit code is 1 if and only if --fail-under is given and the
\* coverage percentage is strictly below the threshold, otherwise 0; the
\* reported counts are those of contract /\ router and contract \ router and
\* add up to the size of the contract.
C13_ExitCodeIffBelowThreshold ==
    mpc = "done" =>
        /\ exit_code \in {Some(0), Some(1)}
        /\ exit_code = Some(1) <=>
              (fail_under # None /\ PercentBelow(fail_under[1]))
        /\ report[1].covered = Cardinality(contract \cap rust)
        /\ report[1].missing = Cardinality(contract \ rust)
        /\ report[1].covered + report[1].missing = report[1].contract_endpoints
        /\ report[1].contract_endpoints = Cardinality(contract)

(***************************************************************************)
(* Further claims about the router tree walker, checked under SpecWalk     *)
(***************************************************************************)
\* C14: the result is exactly the set of (m, join(... join(join("", p1),
\* p2) ..., l)) over the routes from the root along resolved edges that
\* enter no file twice, (m, l) declared in the route's last file; a file
\* reached through several edges is walked under each prefix, and equal
\* pairs reached along different routes are one element.
C14_ResultIsSimpleRouteEndpoints ==
    Done => result[1] = Yield(ModRs, <<>>, {})

\* C14 witness: a.rs is nested by mod.rs under /a and by b/mod.rs, itself
\* nested under b/, and its endpoints are in the result under both prefixes
C14_Witness ==
    /\ run = 1 /\ Done
    /\ files[ModRs].nests = <<NestCall(<<"/", "a">>, <<"a">>),
                              NestCall(<<"b", "/">>, <<"b">>)>>
    /\ files[BModRs].nests = <<NestCall(<<"/", "a">>, <<"a">>)>>
    /\ files[ModRs].health = <<>>
    /\ Endpoint("GET", <<"/", "a", "/", "x">>) \in result[1]
    /\ Endpoint("GET", <<"/", "b", "/", "a", "/", "x">>) \in result[1]
    /\ Cardinality(result[1]) = 6

\* the calls of walk that are past the guard of line 264
Entered == { n \in 1..Len(frames) : frames[n].pc # "entry" }

\* the innermost call is at line 264 for a file that is on the stack
AtCycle == frames # <<>> /\ Top.pc = "entry" /\ on_stack(Top.path)

\* the innermost call is at line 277
AtReturn ==
    /\ frames # <<>>
    /\ Top.pc = "loops"
    /\ Top.todo = {}
    /\ Top.k > Len(DelegationEdges(Top.path))

\* C15: the stack is the sequence of the files of the active calls, from the
\* root's, each the target of the delegation edge its caller is at, and
\* holds no file twice; a call for a file on the stack returns the empty set
\* and leaves stack and parse cache alone; any other call, when it returns,
\* leaves the stack as it was at its entry (the files of its callers); the
\* stack is empty when the top-level call has returned.
C15_StackIsActiveRoute ==
    /\ [](/\ Len(stack) = Cardinality(Entered)
          /\ \A n \in 1..Len(stack) : n \in Entered /\ stack[n] = frames[n].path
          /\ \A n, m \in 1..Len(stack) : stack[n] = stack[m] => n = m
          /\ (frames # <<>> => frames[1].path = ModRs)
          /\ \A n \in 1..(Len(frames) - 1) :
                frames[n + 1].path
                    = EdgeTarget(frames[n].path,
                                 nest_at(DelegationEdges(frames[n].path),
                                         frames[n].k))
          /\ (Done => stack = <<>>))
    /\ [][AtCycle => /\ stack' = stack
                     /\ cache' = cache
                     /\ frames' = [SubSeq(frames, 1, Len(frames) - 1)
                                     EXCEPT ![Len(frames) - 1].k = @ + 1]]_vars
    /\ [][AtReturn =>
            stack' = [n \in 1..(Len(frames) - 1) |-> frames[n].path]]_vars

\* C15 witness: mod.rs and a.rs are on the stack, in that order, and the
\* call a.rs made for mod.rs is at the guard
C15_Witness ==
    /\ stack = <<ModRs, ARs>>
    /\ Len(frames) = 3
    /\ Top.pc = "entry"
    /\ Top.path = ModRs

\* how many times a file is in the log of extractions
Occurrences(log, f) == Cardinality({n \in 1..Len(log) : log[n] = f})

\* the innermost call is at line 267 for a file extracted earlier in the run
AtLaterVisit ==
    /\ frames # <<>>
    /\ Top.pc = "parse"
    /\ Occurrences(extracted, Top.path) > 0

\* C16: within a run no file is extracted more than once, however many
\* edges reach it and under however many prefixes; a later visit extracts
\* nothing and goes on with the cache entry, which holds the endpoints and
\* the delegation edges the first parse of the file gave.
C16_EachFileExtractedOnce ==
    /\ [](/\ \A f \in disk : Occurrences(extracted, f) <= 1
          /\ DOMAIN cache = {extracted[n] : n \in 1..Len(extracted)})
    /\ [][AtLaterVisit =>
            /\ extracted' = extracted
            /\ cache' = cache
            /\ cache[Top.path]
                  = ParsedRouterFile(DeclaredEndpoints(Top.path),
                                     DelegationEdges(Top.path))
            /\ frames' = SetTop([Top EXCEPT
                                    !.pc = "loops",
                                    !.todo = DeclaredEndpoints(Top.path)])]_vars

\* C16 witness: a.rs, extracted when mod.rs nested it, is visited again from
\* b/mod.rs under another prefix, and the log holds it once
C16_Witness ==
    /\ extracted = <<ModRs, ARs, BModRs>>
    /\ stack = <<ModRs, BModRs, ARs>>
    /\ Top.pc = "loops"
    /\ Top.prefix = <<"/", "b", "/", "a">>
    /\ Top.todo = {}

\* the cache entries of this run stay as they are in the step taken
EntriesKept(paths) ==
    run' = run =>
        \A p \in paths : p \in DOMAIN cache' /\ cache'[p] = cache[p]

\* C17 as stated: from the moment a parse result is stored in the cache, its
\* endpoints and its delegation list never change for the rest of the run.
C17_StoredEntryNeverChanges == [][EntriesKept(DOMAIN cache)]_vars

\* the files whose parse result parse_file has returned
Returned ==
    { p \in DOMAIN cache :
        ~(frames # <<>> /\ Top.path = p /\ Top.pc = "health") }

\* C17 amended: from the moment parse_file returns a file's parse result,
\* its endpoints and its delegation list never change for the rest of the
\* run (the root's result is stored first and gets its health edges before
\* parse_file returns it).
C17_ReturnedEntryNeverChanges ==
    /\ [][EntriesKept(Returned)]_vars
    /\ [](\A p \in Returned :
            cache[p] = ParsedRouterFile(DeclaredEndpoints(p), DelegationEdges(p)))

\* C17 witness: the run is over, and the root's entry holds a health edge
\* after the root's own edge
C17_Witness ==
    /\ run = 1 /\ Done
    /\ Len(files[ModRs].nests) = 1
    /\ Len(cache[ModRs].nests) = 2
    /\ cache[ModRs].nests[2] = NestCall(<<"/", "h">>, <<"health">>)
    /\ ARs \in DOMAIN cache

(***************************************************************************)
(* Further claims about the text scanner, checked under SpecScan           *)
(***************************************************************************)
\* the positions (from 0) at which the call prefix stands in the text
NeedleAt(s) ==
    {idx \in 0..(Len(s) - Len(Needle)) : Slice(s, idx, idx + Len(Needle)) = Needle}

\* the text after the opening parenthesis of the occurrence at idx
AfterOpening(s, idx) == SubSeq(s, idx + Len(Needle) + 1, Len(s))

\* the positions of r at which a parenthesis outside every string closes
\* one more than were opened in r before it
Closings(r) ==
    {q \in 1..Len(r) : Outside(r, q, ")") /\ Balance(r, 1, q) = -1}

Least(S) == CHOOSE k \in S : \A other \in S : k <= other

\* the text between the opening parenthesis and its matching closing one
ArgumentText(r) == SubSeq(r, 1, Least(Closings(r)) - 1)

\* the text before and the text after the first top-level comma
SplitPair(args) ==
    <<SubSeq(args, 1, Least(TopLevelCommas(args)) - 1),
      SubSeq(args, Least(TopLevelCommas(args)) + 1, Len(args))>>

\* C18: for every occurrence of the call prefix whose parentheses balance
\* and whose argument text has a top-level comma, occurrences inside the
\* arguments of an earlier call included, the list returned holds the
\* argument text between the occurrence's parentheses, split at the first
\* top-level comma; the search position grows with every occurrence, so
\* the loop ends.
C18_EveryBalancedOccurrenceReturned ==
    /\ [](spc = "done" =>
            \A idx \in NeedleAt(text) :
                LET r == AfterOpening(text, idx)
                IN  (Closings(r) # {} /\ TopLevelCommas(ArgumentText(r)) # {})
                      => \E n \in 1..Len(calls) :
                            calls[n] = SplitPair(ArgumentText(r)))
    /\ [][(spc = "scan" /\ spc' = "scan") => i' > i]_vars

(***************************************************************************)
(* Further claims about the router tree walker, checked under SpecWalk     *)
(***************************************************************************)
\* one edge per pushed literal, to the module health
SyntheticEdges(f) ==
    [n \in 1..Len(files[f].health) |->
        [prefix |-> files[f].health[n], module |-> <<"health">>]]

\* C19: the parse result of the root file holds, after the edges the root
\* declares, one synthetic edge per pushed literal, with the literal as
\* prefix and the module health, each once, from the return of its parse to
\* the end of the run; the parse result of any other file holds the edges
\* the file declares and no synthetic edge, whatever the file pushes.
C19_HealthEdgesOnlyForRoot ==
    \A p \in Returned :
        cache[p].nests
            = IF p = ModRs THEN files[p].nests \o SyntheticEdges(p)
              ELSE files[p].nests

\* C19 witness: the run is over; the root's parse result holds its own edge
\* to a.rs and then the health edge, the health module's endpoint is in the
\* result under the pushed prefix, and a.rs, which pushes the same literal,
\* has no edge at all
C19_Witness ==
    /\ run = 1 /\ Done
    /\ cache[ModRs].nests = <<NestCall(<<"/", "a">>, <<"a">>),
                              NestCall(<<"/", "h">>, <<"health">>)>>
    /\ files[ARs].health = << <<"/", "h">> >>
    /\ cache[ARs].nests = <<>>
    /\ Endpoint("GET", <<"/", "h">>) \in result[1]

====
